---- MODULE Spec2Model ----
(***************************************************************************)
(* Model of scripts/configure_server.py: the S3Path value type, the        *)
(* RuntimeContext operations and main().                                   *)
(*                                                                         *)
(* Strings are sequences of tokens.  A token is either one of the two      *)
(* separator characters ":" and "/" or a word (a run of characters that    *)
(* holds neither); adjacent words read as one longer word.                 *)
(***************************************************************************)
EXTENDS Integers, Sequences, FiniteSets, TLC

VARIABLES
    pc,               \* position of the run
    maps_arg,         \* --maps
    config_arg,       \* --config
    map_location,     \* RuntimeContext.map_location
    config_location,  \* RuntimeContext.config_location
    client,           \* TRUE once the cached s3 client has been created
    calls,            \* remote calls made so far, in order
    files,            \* files under working_dir: <<directory, name>> -> content
    written,          \* paths under working_dir opened for writing so far
    tmpdir,           \* the TemporaryDirectory of download_maps
    scratch,          \* names ever created in the scratch directory
    listing,          \* the pages list_objects_v2 holds under the map prefix
    yielded,          \* objects that RuntimeContext.maps has yielded
    probe,            \* outcome of head_object in is_object
    dyn_body,         \* body of the remote manifest.json
    static_body,      \* body of <home>/manifest.json
    static_read,      \* TRUE once the static manifest has been opened
    manifest_src,     \* which manifest config_manifest returned
    manifest,         \* the manifest config_manifest returned
    todo,             \* manifest entries not yet downloaded
    synced,           \* entries downloaded: <<filename, directory, source>>
    failure,          \* TRUE once a step of the run has failed
    late,             \* remote calls and file writes made after a failure
    exit_code,        \* process exit code
    iter,             \* objects the listing generator still has to yield
    iter_end,         \* how the listing generator ends
    cur,              \* the object the download_maps loop is at
    completed,        \* download_map calls that returned: object and payload
    url_in,           \* input of from_url
    loc,              \* result of from_url
    segs,             \* arguments of navigate
    child             \* result of navigate

vars == <<pc, maps_arg, config_arg, map_location, config_location, client,
          calls, files, written, tmpdir, scratch, listing, yielded, probe,
          dyn_body, static_body, static_read, manifest_src, manifest, todo,
          synced, failure, late, exit_code, iter, iter_end, cur,
          completed, url_in, loc, segs, child>>

----------------------------------------------------------------------------
(* Bounds *)

MaxUrlLen == 4
MaxSegs == 2
MaxEntries == 2
MaxPages == 2
MaxObjs == 2

\* the characters an address is drawn from
Tokens == {"s3", "http", ":", "/", "k"}

----------------------------------------------------------------------------
(* Strings *)

SeqsUpTo(S, n) == UNION {[1..k -> S] : k \in 0..n}

IsWord(t) == t \notin {":", "/"}

\* str.find: index of the first occurrence of t in s, 0 when there is none
Find(s, t) ==
    IF \E i \in 1..Len(s) : s[i] = t
    THEN CHOOSE i \in 1..Len(s) : s[i] = t /\ \A j \in 1..(i-1) : s[j] # t
    ELSE 0

\* str.rfind
RFind(s, t) ==
    IF \E i \in 1..Len(s) : s[i] = t
    THEN CHOOSE i \in 1..Len(s) : s[i] = t /\ \A j \in (i+1)..Len(s) : s[j] # t
    ELSE 0

Drop(s, n) == SubSeq(s, n + 1, Len(s))

EndsWith(s, suffix) ==
    /\ Len(s) >= Len(suffix)
    /\ Drop(s, Len(s) - Len(suffix)) = suffix

\* str.split("/"): the segments between separators, empty ones kept
RECURSIVE Split(_)
Split(s) ==
    LET i == Find(s, "/")
    IN  IF i = 0 THEN <<s>>
        ELSE <<SubSeq(s, 1, i - 1)>> \o Split(Drop(s, i))

\* "/".join(parts)
RECURSIVE Join(_)
Join(parts) ==
    IF parts = <<>> THEN <<>>
    ELSE IF Len(parts) = 1 THEN parts[1]
    ELSE parts[1] \o <<"/">> \o Join(Tail(parts))

\* os.path.basename: what follows the last separator
basename(p) == Drop(p, RFind(p, "/"))

----------------------------------------------------------------------------
(* S3Path *)

None == [some |-> FALSE, bucket |-> <<>>, key |-> <<>>]

S3Path(bucket, key) == [some |-> TRUE, bucket |-> bucket, key |-> key]

\* urllib.parse.urlparse on the token alphabet: the scheme is what precedes
\* the first ":" when that is a non-empty run of words; the netloc is what
\* follows a leading "//" up to the next "/"; a missing netloc is the empty
\* string, never None.
urlparse(url) ==
    LET i == Find(url, ":")
        hasScheme == i > 1 /\ \A j \in 1..(i-1) : IsWord(url[j])
        scheme == IF hasScheme THEN SubSeq(url, 1, i - 1) ELSE <<>>
        rest == IF hasScheme THEN Drop(url, i) ELSE url
        hasNetloc == Len(rest) >= 2 /\ rest[1] = "/" /\ rest[2] = "/"
        after == Drop(rest, 2)
        j == Find(after, "/")
        netloc == IF ~hasNetloc THEN <<>>
                  ELSE IF j = 0 THEN after ELSE SubSeq(after, 1, j - 1)
        path == IF ~hasNetloc THEN rest
                ELSE IF j = 0 THEN <<>> ELSE Drop(after, j - 1)
    IN  [scheme |-> scheme, netloc |-> netloc, path |-> path]

\* from_url without its scheme test (a faulty variant).
from_url_any_scheme(url) ==
    LET result == urlparse(url)
    IN  S3Path(result.netloc, result.path)

\* S3Path.from_url.  "result.netloc is not None" asks whether netloc is a
\* string, which it is in every result of urlparse.
from_url(url) ==
    LET result == urlparse(url)
    IN  IF result.scheme = <<"s3">> /\ result.netloc \in Seq(Tokens)
        THEN S3Path(result.netloc, result.path)
        ELSE None

\* S3Path.base_name
base_name(p) == basename(p.key)

\* S3Path.navigate
navigate(p, args) ==
    LET elements == Split(p.key)
        new_path == Join(elements \o args)
    IN  S3Path(p.bucket, <<"/">> \o new_path)

\* S3Path.url
url(p) == <<"s3", ":", "/", "/">> \o p.bucket \o p.key

----------------------------------------------------------------------------
(* The object store and the local files *)

\* What the client built by boto3.client("s3") offers of the names this
\* program asks of it.  It has get_paginator; it has no attribute paginator.
BotoClientAttrs == {"get_paginator", "download_fileobj", "get_object", "head_object"}

\* The bytes the store holds at an address: different at different addresses.
RemoteBytes(p) == <<"bytes of">> \o p.bucket \o p.key

Call(op, p) == [op |-> op, bucket |-> p.bucket, key |-> p.key]

File(dir, name, content) == [dir |-> dir, name |-> name, content |-> content]

\* open(path, "wb") followed by writes: the file is created or replaced
WriteFile(fs, dir, name, content) ==
    {f \in fs : ~(f.dir = dir /\ f.name = name)} \cup {File(dir, name, content)}

Exists(fs, dir, name) == \E f \in fs : f.dir = dir /\ f.name = name

\* JSON bodies: a manifest is an object, read as its items in order
FileNames == {<<"server.cfg">>, <<"motd.txt">>}

Dirs == {"cfg", "data"}

Manifests ==
    {m \in SeqsUpTo(FileNames \X Dirs, MaxEntries) :
        \A i, j \in 1..Len(m) : i # j => m[i][1] # m[j][1]}

Bodies == {[ok |-> TRUE, m |-> m] : m \in Manifests} \cup {[ok |-> FALSE, m |-> <<>>]}

NoBody == [ok |-> FALSE, m |-> <<>>]

\* listing pages: a page with no match carries no "Contents" entry
MapSuffix == <<".bsp", ".bz2">>

ListedKeys ==
    { <<"/", "k", "/", "a", ".bsp", ".bz2">>,
      <<"/", "k", "/", "a", ".txt">>,
      <<"/", "k", "/", "b", ".bsp", ".bz2">> }

Pages ==
    { [has |-> FALSE, Contents |-> <<>>],
      [has |-> TRUE, Contents |-> <<[Key |-> <<"/", "k", "/", "a", ".bsp", ".bz2">>],
                                    [Key |-> <<"/", "k", "/", "a", ".txt">>]>>],
      [has |-> TRUE, Contents |-> <<[Key |-> <<"/", "k", "/", "b", ".bsp", ".bz2">>]>>] }

Listings == SeqsUpTo(Pages, MaxPages)

RECURSIVE Flatten(_)
Flatten(pages) ==
    IF pages = <<>> THEN <<>> ELSE Head(pages).Contents \o Flatten(Tail(pages))

----------------------------------------------------------------------------
(* S3Path, the operations that take a client *)

\* S3Path.from_object
from_object(bucket, object) == S3Path(bucket, object.Key)

\* map(self.from_object, page["Contents"]): from_object is bound to the class,
\* so each entry is passed as bucket and nothing as object; the first entry
\* raises TypeError.
RECURSIVE ls_pages(_, _)
ls_pages(p, pages) ==
    IF pages = <<>> THEN [objs |-> <<>>, exc |-> "none"]
    ELSE IF ~Head(pages).has THEN [objs |-> <<>>, exc |-> "KeyError"]
    ELSE IF Head(pages).Contents # <<>> THEN [objs |-> <<>>, exc |-> "TypeError"]
    ELSE ls_pages(p, Tail(pages))

\* S3Path.ls: what the generator yields before it ends, and how it ends
ls(attrs, p, pages) ==
    IF "paginator" \notin attrs
    THEN [objs |-> <<>>, exc |-> "AttributeError"]
    ELSE ls_pages(p, pages)

IsMap(obj) == EndsWith(obj.key, MapSuffix)

\* RuntimeContext.maps
maps(attrs, p, pages) ==
    LET r == ls(attrs, p, pages)
    IN  [objs |-> SelectSeq(r.objs, IsMap), exc |-> r.exc]

\* S3Path.is_object for each outcome of head_object: every ClientError, the
\* 404 one and every other, gives False; anything else raised passes through.
ProbeOutcomes == {"ok", "not_found", "client_error", "other_error"}

is_object(outcome) ==
    CASE outcome = "ok" -> "True"
      [] outcome \in {"not_found", "client_error"} -> "False"
      [] OTHER -> "raise"

----------------------------------------------------------------------------
(* RuntimeContext *)

\* RuntimeContext.is_maps_provided / is_config_provided
is_provided(l) == l # None

\* RuntimeContext.from_urls
from_urls(map_url, config_url) ==
    [map_location |-> from_url(map_url), config_location |-> from_url(config_url)]

\* TemporaryDirectory: __enter__ and __exit__ (cleanup on every way out)
NoTmp == [exists |-> FALSE, files |-> {}]

EnterTmp == [exists |-> TRUE, files |-> {}]

\* __exit__ that removes the directory only when no exception passes (a
\* faulty variant).
ExitTmpOnSuccess(t, exc) == IF exc THEN t ELSE NoTmp

ExitTmp(t, exc) == NoTmp

\* config_manifest fetching the dynamic manifest either way (a faulty variant).
manifest_branch_always_dynamic(present) == "load_dynamic"

\* RuntimeContext.config_manifest: the branch on is_object
manifest_branch(present) == IF present = "True" THEN "load_dynamic" ELSE "load_static"

----------------------------------------------------------------------------
(* main(): one run of the script *)

\* the addresses a run is started with
RunUrls ==
    { <<>>,
      <<"s3", ":", "/", "/", "k", "/", "k">>,
      <<"s3", ":", "/", "k">>,
      <<"http", ":", "/", "/", "k", "/", "k">> }

pathVars == <<url_in, loc, segs, child>>

loopVars == <<iter, iter_end, cur, completed>>

configVars == <<probe, dyn_body, static_body, static_read, manifest_src, manifest,
                todo, synced>>

PathIdle == url_in = <<>> /\ loc = None /\ segs = <<>> /\ child = None

LoopIdle == iter = <<>> /\ iter_end = "stop" /\ cur = None /\ completed = {}

ConfigIdle ==
    /\ probe = "none"
    /\ dyn_body = NoBody
    /\ static_body = NoBody
    /\ static_read = FALSE
    /\ manifest_src = "none"
    /\ manifest = <<>>
    /\ todo = <<>>
    /\ synced = {}

Init ==
    /\ pc = "start"
    /\ maps_arg \in RunUrls
    /\ config_arg \in RunUrls
    /\ map_location = None
    /\ config_location = None
    /\ client = FALSE
    /\ calls = <<>>
    /\ files = {}
    /\ written = {}
    /\ tmpdir = NoTmp
    /\ scratch = {}
    /\ listing \in Listings
    /\ yielded = <<>>
    /\ failure = FALSE
    /\ late = 0
    /\ exit_code = -1
    /\ ConfigIdle
    /\ LoopIdle
    /\ PathIdle

\* an exception leaves main(): the interpreter exits with code 1
Abort ==
    /\ failure' = TRUE
    /\ exit_code' = 1
    /\ pc' = "exit"

\* a remote call or a file write made when a step has already failed
Late(n) == late' = IF failure THEN late + n ELSE late

\* parse_args / RuntimeContext.from_urls
ParseArgs ==
    /\ pc = "start"
    /\ LET ctx == from_urls(maps_arg, config_arg)
       IN  /\ map_location' = ctx.map_location
           /\ config_location' = ctx.config_location
    /\ pc' = "maps"
    /\ UNCHANGED <<maps_arg, config_arg, client, calls, files, written, tmpdir,
                   scratch, listing, yielded, failure, late, exit_code>>
    /\ UNCHANGED <<configVars, loopVars, pathVars>>

\* main: "Skipping custom map download"
SkipMaps ==
    /\ pc = "maps"
    /\ ~is_provided(map_location)
    /\ pc' = "config"
    /\ UNCHANGED <<maps_arg, config_arg, map_location, config_location, client,
                   calls, files, written, tmpdir, scratch, listing, yielded,
                   failure, late, exit_code>>
    /\ UNCHANGED <<configVars, loopVars, pathVars>>

\* download_maps: the scratch directory is entered
EnterMaps ==
    /\ pc = "maps"
    /\ is_provided(map_location)
    /\ tmpdir' = EnterTmp
    /\ pc' = "maps_list"
    /\ UNCHANGED <<maps_arg, config_arg, map_location, config_location, client,
                   calls, files, written, scratch, listing, yielded, failure,
                   late, exit_code>>
    /\ UNCHANGED <<configVars, loopVars, pathVars>>

\* download_maps: "for obj in self.maps" asks the generator for its first
\* object.  self.s3 creates the client; ls raises before it yields, so the
\* exception leaves the with block, which removes the scratch directory.
ListMaps ==
    /\ pc = "maps_list"
    /\ client' = TRUE
    /\ LET r == maps(BotoClientAttrs, map_location, listing)
       IN  /\ yielded' = r.objs
           /\ r.objs = <<>>
           /\ tmpdir' = ExitTmp(tmpdir, r.exc # "none")
           /\ IF r.exc # "none"
              THEN Abort
              ELSE pc' = "config" /\ UNCHANGED <<failure, exit_code>>
    /\ UNCHANGED <<maps_arg, config_arg, map_location, config_location, calls,
                   files, written, scratch, listing, late>>
    /\ UNCHANGED <<configVars, loopVars, pathVars>>

\* main: "Skipping dynamic configuration"
SkipConfig ==
    /\ pc = "config"
    /\ ~is_provided(config_location)
    /\ pc' = "handoff"
    /\ UNCHANGED <<maps_arg, config_arg, map_location, config_location, client,
                   calls, files, written, tmpdir, scratch, listing, yielded,
                   failure, late, exit_code>>
    /\ UNCHANGED <<configVars, loopVars, pathVars>>

\* where download_configuration_files goes with a manifest in hand
AfterManifest(m) == IF m = <<>> THEN "handoff" ELSE "sync"

\* config_manifest, first half: is_object on <config>/manifest.json
ProbeManifest ==
    /\ pc = "config"
    /\ is_provided(config_location)
    /\ client' = TRUE
    /\ LET dynamic_manifest == navigate(config_location, <<<<"manifest.json">>>>)
       IN  calls' = Append(calls, Call("head_object", dynamic_manifest))
    /\ Late(1)
    /\ \E d \in Bodies, s \in Bodies : dyn_body' = d /\ static_body' = s
    /\ \E outcome \in ProbeOutcomes :
        /\ probe' = outcome
        /\ IF is_object(outcome) = "raise"
           THEN Abort
           ELSE /\ pc' = manifest_branch(is_object(outcome))
                /\ exit_code' = exit_code
                /\ failure' = (failure \/ outcome \notin {"ok", "not_found"})
    /\ UNCHANGED <<maps_arg, config_arg, map_location, config_location, files,
                   written, tmpdir, scratch, listing, yielded>>
    /\ UNCHANGED <<static_read, manifest_src, manifest, todo, synced>>
    /\ UNCHANGED <<loopVars, pathVars>>

\* config_manifest: load_json on the dynamic manifest
LoadDynamic ==
    /\ pc = "load_dynamic"
    /\ LET dynamic_manifest == navigate(config_location, <<<<"manifest.json">>>>)
       IN  calls' = Append(calls, Call("get_object", dynamic_manifest))
    /\ Late(1)
    /\ \E got \in BOOLEAN :
        IF got /\ dyn_body.ok
        THEN /\ manifest_src' = "dynamic"
             /\ manifest' = dyn_body.m
             /\ todo' = dyn_body.m
             /\ pc' = AfterManifest(dyn_body.m)
             /\ UNCHANGED <<failure, exit_code>>
        ELSE /\ Abort
             /\ UNCHANGED <<manifest_src, manifest, todo>>
    /\ UNCHANGED <<maps_arg, config_arg, map_location, config_location, client,
                   files, written, tmpdir, scratch, listing, yielded>>
    /\ UNCHANGED <<probe, dyn_body, static_body, static_read, synced>>
    /\ UNCHANGED <<loopVars, pathVars>>

\* config_manifest: the static manifest is opened and parsed
LoadStatic ==
    /\ pc = "load_static"
    /\ \E opened \in BOOLEAN :
        /\ static_read' = opened
        /\ IF opened /\ static_body.ok
           THEN /\ manifest_src' = "static"
                /\ manifest' = static_body.m
                /\ todo' = static_body.m
                /\ pc' = AfterManifest(static_body.m)
                /\ UNCHANGED <<failure, exit_code>>
           ELSE /\ Abort
                /\ UNCHANGED <<manifest_src, manifest, todo>>
    /\ UNCHANGED <<maps_arg, config_arg, map_location, config_location, client,
                   calls, files, written, tmpdir, scratch, listing, yielded, late>>
    /\ UNCHANGED <<probe, dyn_body, static_body, synced>>
    /\ UNCHANGED <<loopVars, pathVars>>

\* download_configuration_file for the next entry of the manifest
DownloadConfigurationFile ==
    /\ pc = "sync"
    /\ todo # <<>>
    /\ LET filename == Head(todo)[1]
           directory == Head(todo)[2]
           source_path == navigate(config_location, <<filename>>)
       IN  \E outcome \in {"open_fails", "get_fails", "ok"} :
            IF outcome = "open_fails"
            THEN /\ Abort
                 /\ UNCHANGED <<files, written, calls, late, todo, synced>>
            ELSE /\ written' = written \cup {<<directory, filename>>}
                 /\ calls' = Append(calls, Call("download_fileobj", source_path))
                 /\ Late(2)
                 /\ IF outcome = "get_fails"
                    THEN /\ files' = WriteFile(files, directory, filename, <<>>)
                         /\ Abort
                         /\ UNCHANGED <<todo, synced>>
                    ELSE /\ files' = WriteFile(files, directory, filename,
                                               RemoteBytes(source_path))
                         /\ todo' = Tail(todo)
                         /\ synced' = synced \cup
                                {<<filename, directory, source_path>>}
                         /\ pc' = AfterManifest(Tail(todo))
                         /\ UNCHANGED <<failure, exit_code>>
    /\ UNCHANGED <<maps_arg, config_arg, map_location, config_location, client,
                   tmpdir, scratch, listing, yielded>>
    /\ UNCHANGED <<probe, dyn_body, static_body, static_read, manifest_src, manifest>>
    /\ UNCHANGED <<loopVars, pathVars>>

\* main: "Server configuration successful", return 0
Handoff ==
    /\ pc = "handoff"
    /\ exit_code' = 0
    /\ pc' = "exit"
    /\ UNCHANGED <<maps_arg, config_arg, map_location, config_location, client,
                   calls, files, written, tmpdir, scratch, listing, yielded,
                   failure, late>>
    /\ UNCHANGED <<configVars, loopVars, pathVars>>

Next ==
    \/ ParseArgs
    \/ SkipMaps
    \/ EnterMaps
    \/ ListMaps
    \/ SkipConfig
    \/ ProbeManifest
    \/ LoadDynamic
    \/ LoadStatic
    \/ DownloadConfigurationFile
    \/ Handoff

Spec == Init /\ [][Next]_vars

----------------------------------------------------------------------------
(* download_maps and download_map, for whatever the listing generator yields *)

\* bz2: a payload is a compressed stream of some data, or no stream at all
Payloads == {<<"bz2">>, <<"bz2", "x">>, <<"junk">>}

Decompress(p) ==
    IF p # <<>> /\ p[1] = "bz2"
    THEN [ok |-> TRUE, data |-> Tail(p)]
    ELSE [ok |-> FALSE, data |-> <<>>]

ScratchFile(name, content) == [name |-> name, content |-> content]

WriteScratch(t, name, content) ==
    [exists |-> TRUE,
     files |-> {f \in t.files : f.name # name} \cup {ScratchFile(name, content)}]

\* what the store and the disk do during one download_map
MapEnvs == [tmp_open : BOOLEAN, get_ok : BOOLEAN, body : Payloads]

\* RuntimeContext.download_map.  The destination is map_dir / obj.base_name,
\* opened "rb": it must exist already, and the first write to it raises.
download_map(t, fs, obj, env) ==
    LET name == base_name(obj)
        created == WriteScratch(t, name, <<>>)
        fetched == WriteScratch(t, name, env.body)
        bz2_fd == Decompress(env.body)
    IN  IF ~env.tmp_open
        THEN [tmpdir |-> t, files |-> fs, called |-> FALSE, exc |-> "OSError"]
        ELSE IF ~env.get_ok
        THEN [tmpdir |-> created, files |-> fs, called |-> TRUE, exc |-> "ClientError"]
        ELSE IF ~Exists(fs, "maps", name)
        THEN [tmpdir |-> fetched, files |-> fs, called |-> TRUE,
              exc |-> "FileNotFoundError"]
        ELSE IF ~bz2_fd.ok
        THEN [tmpdir |-> fetched, files |-> fs, called |-> TRUE, exc |-> "OSError"]
        ELSE IF bz2_fd.data # <<>>
        THEN [tmpdir |-> fetched, files |-> fs, called |-> TRUE,
              exc |-> "UnsupportedOperation"]
        ELSE [tmpdir |-> fetched, files |-> fs, called |-> TRUE, exc |-> "none"]

ListedObjs == {S3Path(<<"k">>, k) : k \in ListedKeys}

\* what the maps directory may hold before the run
PriorMapFiles ==
    { File("maps", <<"a", ".bsp">>, <<"old">>),
      File("maps", <<"a", ".bsp", ".bz2">>, <<"old">>),
      File("maps", <<"b", ".bsp", ".bz2">>, <<"old">>) }

runVars == <<maps_arg, config_arg, map_location, config_location, listing,
             written, late, exit_code>>

InitMaps ==
    /\ pc = "m_enter"
    /\ maps_arg = <<"s3", ":", "/", "/", "k", "/", "k">>
    /\ config_arg = <<>>
    /\ map_location = from_url(maps_arg)
    /\ config_location = None
    /\ client = FALSE
    /\ calls = <<>>
    /\ files \in SUBSET PriorMapFiles
    /\ written = {}
    /\ tmpdir = NoTmp
    /\ scratch = {}
    /\ listing = <<>>
    /\ yielded = <<>>
    /\ failure = FALSE
    /\ late = 0
    /\ exit_code = -1
    /\ iter \in SeqsUpTo(ListedObjs, MaxObjs)
    /\ iter_end \in {"stop", "raise"}
    /\ cur = None
    /\ completed = {}
    /\ ConfigIdle
    /\ PathIdle

\* download_maps: with tempfile.TemporaryDirectory() as tmpdir
EnterScratch ==
    /\ pc = "m_enter"
    /\ tmpdir' = EnterTmp
    /\ pc' = "m_next"
    /\ UNCHANGED <<client, calls, files, scratch, yielded, failure>>
    /\ UNCHANGED <<runVars, configVars, loopVars, pathVars>>

\* download_maps: "for obj in self.maps" asks for the next object.  maps
\* passes over what does not end in .bsp.bz2; when the generator ends or
\* raises, the with block is left.
NextMap ==
    /\ pc = "m_next"
    /\ client' = TRUE
    /\ IF \E i \in 1..Len(iter) : IsMap(iter[i])
       THEN LET i == CHOOSE i \in 1..Len(iter) :
                        IsMap(iter[i]) /\ \A j \in 1..(i-1) : ~IsMap(iter[j])
            IN  /\ cur' = iter[i]
                /\ iter' = Drop(iter, i)
                /\ yielded' = Append(yielded, iter[i])
                /\ pc' = "m_download"
                /\ UNCHANGED <<tmpdir, failure>>
       ELSE /\ iter' = <<>>
            /\ tmpdir' = ExitTmp(tmpdir, iter_end = "raise")
            /\ failure' = (iter_end = "raise")
            /\ pc' = IF iter_end = "raise" THEN "m_failed" ELSE "m_done"
            /\ UNCHANGED <<cur, yielded>>
    /\ UNCHANGED <<calls, files, scratch, iter_end, completed>>
    /\ UNCHANGED <<runVars, configVars, pathVars>>

\* download_maps: self.download_map(tmpdir, obj); an exception leaves the
\* with block
DownloadMap ==
    /\ pc = "m_download"
    /\ \E env \in MapEnvs :
        LET r == download_map(tmpdir, files, cur, env)
        IN  /\ files' = r.files
            /\ scratch' = scratch \cup {f.name : f \in r.tmpdir.files}
            /\ calls' = IF r.called
                        THEN Append(calls, Call("download_fileobj", cur))
                        ELSE calls
            /\ IF r.exc = "none"
               THEN /\ tmpdir' = r.tmpdir
                    /\ completed' = completed \cup {[obj |-> cur, payload |-> env.body]}
                    /\ pc' = "m_next"
                    /\ UNCHANGED failure
               ELSE /\ tmpdir' = ExitTmp(r.tmpdir, TRUE)
                    /\ failure' = TRUE
                    /\ pc' = "m_failed"
                    /\ UNCHANGED completed
    /\ UNCHANGED <<client, yielded, iter, iter_end, cur>>
    /\ UNCHANGED <<runVars, configVars, pathVars>>

NextMaps ==
    \/ EnterScratch
    \/ NextMap
    \/ DownloadMap

SpecMaps == InitMaps /\ [][NextMaps]_vars

----------------------------------------------------------------------------
(* S3Path as a value: from_url, from_object, navigate *)

Urls ==
    SeqsUpTo(Tokens, MaxUrlLen)
        \cup {<<"s3", ":", "/", "/">> \o t : t \in SeqsUpTo(Tokens, MaxUrlLen)}

\* keys as list_objects_v2 reports them
ObjectKeys == {<<"k">>, <<"k", "/", "k">>}

\* path segments handed to navigate
Segments == {<<"k">>, <<"manifest.json">>}

allButPath == <<maps_arg, config_arg, map_location, config_location, client,
                calls, files, written, tmpdir, scratch, listing, yielded,
                failure, late, exit_code>>

InitPath ==
    /\ pc = "p_start"
    /\ url_in \in Urls
    /\ loc = None
    /\ segs = <<>>
    /\ child = None
    /\ maps_arg = <<>>
    /\ config_arg = <<>>
    /\ map_location = None
    /\ config_location = None
    /\ client = FALSE
    /\ calls = <<>>
    /\ files = {}
    /\ written = {}
    /\ tmpdir = NoTmp
    /\ scratch = {}
    /\ listing = <<>>
    /\ yielded = <<>>
    /\ failure = FALSE
    /\ late = 0
    /\ exit_code = -1
    /\ ConfigIdle
    /\ LoopIdle

\* S3Path.from_url(url_in)
FromUrl ==
    /\ pc = "p_start"
    /\ loc' = from_url(url_in)
    /\ pc' = "p_parsed"
    /\ UNCHANGED <<url_in, segs, child>>
    /\ UNCHANGED <<allButPath, configVars, loopVars>>

\* S3Path.from_object(bucket, object)
FromObject ==
    /\ pc = "p_start"
    /\ \E k \in ObjectKeys : loc' = from_object(<<"k">>, [Key |-> k])
    /\ pc' = "p_object"
    /\ UNCHANGED <<url_in, segs, child>>
    /\ UNCHANGED <<allButPath, configVars, loopVars>>

\* loc.navigate(*segs)
Navigate ==
    /\ pc \in {"p_parsed", "p_object"}
    /\ loc # None
    /\ \E a \in SeqsUpTo(Segments, MaxSegs) :
        /\ segs' = a
        /\ child' = navigate(loc, a)
    /\ pc' = "p_child"
    /\ UNCHANGED <<url_in, loc>>
    /\ UNCHANGED <<allButPath, configVars, loopVars>>

NextPath ==
    \/ FromUrl
    \/ FromObject
    \/ Navigate

SpecPath == InitPath /\ [][NextPath]_vars

----------------------------------------------------------------------------
(* Properties *)

CallsOf(op) == {i \in 1..Len(calls) : calls[i].op = op}

\* C1: when head_object on <config>/manifest.json fails with an object-store
\* error other than "not found", the run aborts: the static manifest is not
\* opened, no configuration file is written and exit code 0 is not reached.
C1_ProbeErrorIsFatal ==
    probe \in {"client_error", "other_error"} =>
        /\ pc = "exit"
        /\ exit_code = 1
        /\ ~static_read
        /\ manifest_src = "none"
        /\ written = {}

ConfigChild(filename) ==
    S3Path(config_location.bucket, config_location.key \o <<"/">> \o filename)

\* C4: after a config sync that completes for a config location with a
\* container, each manifest entry's local file
\* <working-dir>/<directory>/<filename> holds the bytes of the remote object
\* whose key is the config prefix, "/" and the filename, and that object is
\* the one that was requested.
C4_ConfigFilesMatchRemote ==
    (pc = "exit" /\ exit_code = 0 /\ manifest_src # "none"
        /\ config_location.bucket # <<>>) =>
        \A i \in 1..Len(manifest) :
            LET filename == manifest[i][1]
                directory == manifest[i][2]
            IN  /\ \E f \in files :
                    /\ f.dir = directory
                    /\ f.name = filename
                    /\ f.content = RemoteBytes(ConfigChild(filename))
                /\ \E c \in 1..Len(calls) :
                    calls[c] = Call("download_fileobj", ConfigChild(filename))

\* the listed objects, page after page, as Remote Objects
Listed(bucket, pages) ==
    LET entries == Flatten(pages)
    IN  [i \in 1..Len(entries) |-> from_object(bucket, entries[i])]

\* C5: enumerating the maps yields exactly the listed objects whose key ends
\* in .bsp.bz2, from every page, once each, with the location's bucket and
\* the full key.
C5_EnumerateMaps ==
    (map_location # None /\ pc \notin {"start", "maps", "maps_list"}) =>
        yielded = SelectSeq(Listed(map_location.bucket, listing), IsMap)

\* C6: the maps phase is over before the config phase starts; once a step
\* has failed no remote call and no file write follows, the run ends there,
\* and exit code 0 is reached only by a run in which no step failed.
C6_FailStop ==
    /\ pc \in {"config", "load_dynamic", "load_static", "sync", "handoff"} =>
        ~tmpdir.exists
    /\ failure => late = 0 /\ exit_code # 0
    /\ exit_code = 0 => ~failure

Absent(arg, l) == arg = <<>> \/ (pc # "start" /\ l = None)

\* C7: with neither source given (empty, or not parsed to a location) the
\* run goes to the handoff and exits 0: no client is created, no remote call
\* is made and nothing is written.
C7_NothingToDo ==
    (Absent(maps_arg, map_location) /\ Absent(config_arg, config_location)) =>
        /\ pc \in {"start", "maps", "config", "handoff", "exit"}
        /\ ~client
        /\ calls = <<>>
        /\ files = {} /\ written = {}
        /\ tmpdir = NoTmp /\ scratch = {}
        /\ ~failure
        /\ pc = "exit" => exit_code = 0

\* C7 witness: a run with no usable source has exited with code 0.
C7_Witness ==
    /\ map_location = None
    /\ config_location = None
    /\ config_arg # <<>>
    /\ pc = "exit"
    /\ exit_code = 0

\* the part of a base name before its last suffix
Stem(name) == SubSeq(name, 1, Len(name) - 1)

\* C3: a download_map that returns for an object <name>.bsp.bz2 leaves in the
\* maps directory a file <name>.bsp holding the decompressed payload.
C3_MapInstalled ==
    \A c \in completed :
        IsMap(c.obj) =>
            \E f \in files :
                /\ f.dir = "maps"
                /\ f.name = Stem(base_name(c.obj))
                /\ f.content = Decompress(c.payload).data

\* C9: the scratch directory exists while the maps phase runs and, however
\* the phase ends, it and the files written into it are gone afterwards.
C9_ScratchRemoved ==
    /\ pc \in {"m_next", "m_download"} => tmpdir.exists
    /\ pc \in {"m_done", "m_failed"} => tmpdir = NoTmp

\* C9 witness: the phase failed after a payload had been written to scratch.
C9_Witness ==
    /\ pc = "m_failed"
    /\ scratch # {}
    /\ completed = {}
    /\ tmpdir = NoTmp

\* an address of the form s3://container/key-prefix
WellFormed(u) ==
    /\ Len(u) >= 5
    /\ SubSeq(u, 1, 4) = <<"s3", ":", "/", "/">>
    /\ IsWord(u[5])
    /\ \A i \in 5..Len(u) : u[i] # ":"

\* C8: from_url gives a location for a well-formed s3 address and absence
\* for every other address.
C8_ParseAbsence ==
    pc = "p_parsed" => (loc # None <=> WellFormed(url_in))

\* C10: navigate with segments s1..sn on a location with a container keeps
\* the bucket and gives a key whose segments are those of the receiver's key
\* followed by s1..sn.
C10_ChildAppendsSegments ==
    (pc = "p_child" /\ loc.bucket # <<>> /\ segs # <<>>) =>
        /\ child.bucket = loc.bucket
        /\ Split(child.key) = Split(loc.key) \o segs

====
